---- MODULE Spec2Model ----
(***************************************************************************)
(* A model of rust-objc's block bridge (src/core/block.rs) and of its      *)
(* message-signature verification (src/src/message/verify.rs).             *)
(*                                                                         *)
(* Memory is modelled explicitly: ConcreteBlock values living in stack     *)
(* slots, Block_copy'd objects on the heap, the Box'ed BlockDescriptors    *)
(* and the heap buffers owned by captured Strings.  Every allocation       *)
(* counts how often it was freed, so a double free or a leak is visible.   *)
(***************************************************************************)
EXTENDS Integers, Sequences, FiniteSets, TLC

VARIABLES
    stack,      \* stack slot -> [st, F, from, closure, blk]: the ConcreteBlock
                \* values ever built (from: the slot it was cloned from;
                \* closure: the closure value that was moved in)
    heap,       \* heap object -> [st, F, blk, rc, origin, disposed, frees]:
                \* results of Block_copy (disposed: runs of the dispose
                \* helper on it; frees: how often its storage was freed)
    descs,      \* Box<BlockDescriptor> allocations -> [alloc, frees, desc]
    bufs,       \* String buffers -> [alloc, frees]
    ids,        \* heap object -> number of Id<Block<A, R>> handles Rust owns
    foreign,    \* [ptrs: stack slots whose header foreign code holds,
                \*  refs: heap object -> references foreign code owns]
    copies,     \* stack slot -> how often the copy primitive copied it
    lastCall,   \* the last Block::call: [region, id, live, args, value]
    halted,     \* the process was aborted (an outcome of undefined behaviour)
    vm          \* the state of one verify_message_signature activation

vars == <<stack, heap, descs, bufs, ids, foreign, copies, lastCall, halted, vm>>

-----------------------------------------------------------------------------
(* Bounds of the model *)

MaxBlocks == 2      \* ConcreteBlock values constructed in one run
MaxHeap == 2        \* heap blocks allocated in one run
MaxRefs == 2        \* cap on a heap block's reference count

(* Program constants *)

MaxArity == 12      \* block_args_impl! / concrete_block_impl! go up to 12
PtrSize == 8        \* a pointer, a c_ulong, a usize (64-bit Apple targets)
IntSize == 4        \* c_int

Slots == 1..MaxBlocks
HeapIds == 1..MaxHeap
\* Every construction boxes one descriptor and owns at most one String.
DescIds == 1..MaxBlocks
BufIds == 1..MaxBlocks

-----------------------------------------------------------------------------
(* The closures wrapped (the type parameter F) *)

\* A closure type: its arity, a constant of its body, and whether it
\* captures (moves in) an owned String.  [0, 13, no] is `|| 13`,
\* [1, 5, no] is `|a| a + 5`, [0, 0, yes] is `move || s.len() as i32`.
FType(n, k, c) == [arity |-> n, k |-> k, captures |-> c]

\* Values passed as block arguments, and lengths of captured Strings.
ArgVals == {2, 6}
StrLens == {6}

RECURSIVE WeightedSum(_, _)
WeightedSum(args, i) ==
    IF i > Len(args) THEN 0 ELSE i * args[i] + WeightedSum(args, i + 1)

\* Calling the closure value itself: F's body over its captured state
\* (the String's len field) and its arguments, in parameter order.  The
\* values used are small, so the i32 arithmetic never overflows.
ClosureCall(F, closure, args) ==
    F.k + (IF F.captures THEN closure[3] ELSE 0) + WeightedSum(args, 1)

\* The argument tuples of a closure type.
ArgsOf(F) == [1..F.arity -> ArgVals]

-----------------------------------------------------------------------------
(* Layout: mem::size_of *)

\* Block<A, R>: isa, flags, _reserved, invoke.
SizeOfBlock == PtrSize + IntSize + IntSize + PtrSize

\* The closure value: nothing when it captures nothing, else a String
\* (ptr, cap, len).
WordsOf(F) == IF F.captures THEN 3 ELSE 0
SizeOfClosure(F) == WordsOf(F) * PtrSize

\* ConcreteBlock<A, R, F>: base, descriptor (a Box), closure.
SizeOfConcreteBlock(F) == SizeOfBlock + PtrSize + SizeOfClosure(F)

-----------------------------------------------------------------------------
(* Trampolines and the call path *)

\* The function item $f::<.., R, X> that concrete_block_impl! generates for
\* arity n and closure type X; its address is what the header stores.
Trampoline(n, X) == [f |-> "concrete_block_invoke_args", n |-> n, X |-> X]

\* An invoke word that is not the address of any trampoline.
NoInvoke == [f |-> "none", n |-> 0, X |-> FType(0, 0, FALSE)]

\* (mutant) a trampoline that hands its parameters on in reverse order.
concrete_block_invoke_reversed(inv, block, passed) ==
    ClosureCall(inv.X, block.closure, [i \in 1..inv.n |-> passed[inv.n + 1 - i]])

\* The body of a trampoline: it takes its n formal parameters from the
\* arguments passed after block_ptr, in order, and calls block.closure.
concrete_block_invoke(inv, block, passed) ==
    ClosureCall(inv.X, block.closure, [i \in 1..inv.n |-> passed[i]])

\* BlockArguments::call_block for the tuple type of Len(args) elements: the
\* header's invoke word is called with the block and the tuple's elements
\* a, b, c, ... in declaration order.
call_block(args, block) ==
    concrete_block_invoke(block.base.invoke, block,
                          [i \in 1..Len(args) |-> args[i]])

\* Block::call.
call(block, args) == call_block(args, block)

-----------------------------------------------------------------------------
(* Descriptors and construction *)

StackBlockClass == "_NSConcreteStackBlock"
MallocBlockClass == "_NSConcreteMallocBlock"

\* 1 << 25 = BLOCK_HAS_COPY_DISPOSE
BLOCK_HAS_COPY_DISPOSE == 2^25

HasBit(flags, bit) == (flags \div bit) % 2 = 1

\* (mutant) the size of the header type, mem::size_of::<Block<A, R>>().
BlockDescriptorNew_header(F) ==
    [_reserved |-> 0,
     block_size |-> SizeOfBlock,
     copy_helper |-> "block_context_copy",
     dispose_helper |-> "block_context_dispose"]

\* (mutant) the size of the closure type, mem::size_of::<F>().
BlockDescriptorNew_closure(F) ==
    [_reserved |-> 0,
     block_size |-> SizeOfClosure(F),
     copy_helper |-> "block_context_copy",
     dispose_helper |-> "block_context_dispose"]

\* BlockDescriptor::<ConcreteBlock<A, R, F>>::new()
BlockDescriptorNew(F) ==
    [_reserved |-> 0,
     block_size |-> SizeOfConcreteBlock(F),
     copy_helper |-> "block_context_copy",
     dispose_helper |-> "block_context_dispose"]

NoDescriptor ==
    [_reserved |-> 0, block_size |-> 0,
     copy_helper |-> "none", dispose_helper |-> "none"]

\* (mutant) a header built without the copy/dispose flag.
with_invoke_noflags(invoke, closure, d) ==
    [base |-> [isa |-> StackBlockClass,
               flags |-> 0,
               _reserved |-> 0,
               invoke |-> invoke],
     descriptor |-> d,
     closure |-> closure]

\* ConcreteBlock::with_invoke, with d the address Box::new returned for
\* the descriptor.
with_invoke(invoke, closure, d) ==
    [base |-> [isa |-> StackBlockClass,
               flags |-> BLOCK_HAS_COPY_DISPOSE,
               _reserved |-> 0,
               invoke |-> invoke],
     descriptor |-> d,
     closure |-> closure]

\* (mutant) every arity gets the arity-0 trampoline.
into_concrete_block_args0(F, closure, d) ==
    [base |-> [isa |-> StackBlockClass,
               flags |-> BLOCK_HAS_COPY_DISPOSE,
               _reserved |-> 0,
               invoke |-> Trampoline(0, F)],
     descriptor |-> d,
     closure |-> closure]

\* IntoConcreteBlock::into_concrete_block for a closure of type F: the
\* trampoline of F's arity, instantiated at F.
into_concrete_block(F, closure, d) ==
    with_invoke(Trampoline(F.arity, F), closure, d)

\* (mutant) a clone that copies the original's fields, the descriptor's
\* address among them.
clone_shared(self, closure, d) ==
    [base |-> self.base, descriptor |-> self.descriptor, closure |-> closure]

\* Clone for ConcreteBlock: the same invoke word, a clone of the closure,
\* and (through with_invoke) a descriptor of its own.
clone(self, closure, d) == with_invoke(self.base.invoke, closure, d)

\* Deref / DerefMut: the header, which is the first field and so lies at
\* the address of the whole block.
deref(self) == self.base

NoBlk == with_invoke(NoInvoke, <<>>, 0)

-----------------------------------------------------------------------------
(* Allocation and destruction *)

Min(S) == CHOOSE x \in S : \A y \in S : x <= y

FreeSlots == {b \in Slots : stack[b].st = "unused"}
FreeHeap == {h \in HeapIds : heap[h].st = "unused"}
FreeDescs == {d \in DescIds : ~descs[d].alloc}
FreeBufs == {e \in BufIds : ~bufs[e].alloc}

\* Box::new(desc) at address d.
BoxNew(d, desc) == [descs EXCEPT ![d] = [alloc |-> TRUE, frees |-> 0, desc |-> desc]]

\* The closure value of type F built over a fresh buffer e: a String is
\* (ptr, cap, len).
MakeClosure(F, e, slen) == IF F.captures THEN <<e, slen, slen>> ELSE <<>>
AllocBuf(F, e) ==
    IF F.captures THEN [bufs EXCEPT ![e] = [alloc |-> TRUE, frees |-> 0]] ELSE bufs

\* Drop glue.  Freeing is counted, so that freeing twice shows; a wild
\* pointer (one that is no allocation's address) frees nothing we track.
DropBox(d, ds) ==
    IF d \in DOMAIN ds THEN [ds EXCEPT ![d].frees = @ + 1] ELSE ds
DropClosure(F, closure, bs) ==
    IF F.captures /\ closure[1] \in DOMAIN bs
    THEN [bs EXCEPT ![closure[1]].frees = @ + 1]
    ELSE bs

\* Dropping a ConcreteBlock<A, R, F> value drops its fields: the header
\* (nothing to do), the Box'ed descriptor, the closure.
DropConcreteBlock(F, blk, m) ==
    [m EXCEPT !.descs = DropBox(blk.descriptor, m.descs),
              !.bufs = DropClosure(F, blk.closure, m.bufs)]

\* (mutant) self is dropped instead of forgotten.
forget_dropped(F, blk, m) == DropConcreteBlock(F, blk, m)

\* mem::forget: no destructor runs.
forget(F, blk, m) == m

\* (mutant) a dispose helper that takes the block back as a Box and drops
\* it: the fields are dropped and the allocation is freed as well.
block_context_dispose_boxed(F, block, m) ==
    LET dropped == DropConcreteBlock(F, heap[block].blk, m)
    IN  [dropped EXCEPT !.hfrees[block] = @ + 1]

\* block_context_dispose::<B>(block): ptr::read(block) moves the block out
\* of the heap allocation at address block into a temporary, which is
\* dropped at once.  The allocation itself is not touched.
block_context_dispose(F, block, m) == DropConcreteBlock(F, heap[block].blk, m)

\* (mutant) a copy helper that moves src out and drops it.
block_context_copy_drops(F, dst, src, m) ==
    [blk |-> dst, mem |-> DropConcreteBlock(F, src, m)]

\* block_context_copy::<B>: nothing to do, the runtime has memmoved src
\* into dst.  Neither block nor any allocation changes.
block_context_copy(F, dst, src, m) == [blk |-> dst, mem |-> m]

\* The allocations: descriptor Boxes, String buffers, and how often each
\* heap block's storage was freed.
Mem ==
    [descs |-> descs, bufs |-> bufs,
     hfrees |-> [h \in HeapIds |-> heap[h].frees]]

-----------------------------------------------------------------------------
(* The foreign runtime: Block_copy, retain, release *)

\* What a fresh allocation may hold where nothing was copied to.
GarbageWords == {0, 1}

Copied(off, n, size) == off + n <= size

\* memmove(dst, src, size) into a fresh allocation: a field arrives when it
\* lies within the first size bytes, and is whatever the allocation held
\* (g) when it does not.
RawCopy(src, size, g) ==
    [base |->
        [isa |-> IF Copied(0, PtrSize, size) THEN src.base.isa ELSE "garbage",
         flags |-> IF Copied(PtrSize, IntSize, size) THEN src.base.flags ELSE g,
         _reserved |-> IF Copied(PtrSize + IntSize, IntSize, size)
                       THEN src.base._reserved ELSE g,
         invoke |-> IF Copied(PtrSize + 2 * IntSize, PtrSize, size)
                    THEN src.base.invoke ELSE NoInvoke],
     descriptor |-> IF Copied(SizeOfBlock, PtrSize, size) THEN src.descriptor ELSE g,
     closure |-> [i \in 1..Len(src.closure) |->
                    IF Copied(SizeOfBlock + PtrSize + (i - 1) * PtrSize, PtrSize, size)
                    THEN src.closure[i] ELSE g]]

\* The descriptor a block points to, as the runtime reads it (stale when
\* the Box was freed, empty when the pointer is wild).
DescriptorOf(blk) ==
    IF blk.descriptor \in DOMAIN descs THEN descs[blk.descriptor].desc ELSE NoDescriptor

\* The copy primitive on a stack block: allocate block_size bytes, copy the
\* block into them, mark the copy a heap block, run the copy helper when
\* the flags announce one.  The result is the heap block and the memory
\* the helper left.
Block_copy(F, src, g, m) ==
    LET dst == RawCopy(src, DescriptorOf(src).block_size, g)
        marked == [dst EXCEPT !.base.isa = MallocBlockClass]
    IN  IF HasBit(src.base.flags, BLOCK_HAS_COPY_DISPOSE)
           /\ DescriptorOf(src).copy_helper = "block_context_copy"
        THEN block_context_copy(F, marked, src, m)
        ELSE [blk |-> marked, mem |-> m]

\* The last release of heap block h: the dispose helper runs when the
\* flags announce one, then the runtime frees the allocation.
DisposeRuns(h) ==
    /\ HasBit(heap[h].blk.base.flags, BLOCK_HAS_COPY_DISPOSE)
    /\ DescriptorOf(heap[h].blk).dispose_helper = "block_context_dispose"

DisposeEffect(h, m) ==
    IF DisposeRuns(h)
    THEN block_context_dispose(heap[h].F, h, m)
    ELSE m

\* Using freed memory is undefined: the stale contents may still be there
\* (the operation runs as if nothing had happened) or the process aborts.
Stale(F, blk) ==
    \/ blk.descriptor \in DOMAIN descs /\ descs[blk.descriptor].frees > 0
    \/ F.captures /\ blk.closure[1] \in DOMAIN bufs /\ bufs[blk.closure[1]].frees > 0
Outcomes(F, blk) == IF Stale(F, blk) THEN {"run", "abort"} ELSE {"run"}

NoHeap ==
    [st |-> "unused", F |-> FType(0, 0, FALSE), blk |-> NoBlk, rc |-> 0,
     origin |-> 0, disposed |-> 0, frees |-> 0]
NoSlot ==
    [st |-> "unused", F |-> FType(0, 0, FALSE), from |-> 0,
     closure |-> <<>>, blk |-> NoBlk]
NoCall == [region |-> "none", id |-> 0, live |-> TRUE, args |-> <<>>, value |-> 0]

-----------------------------------------------------------------------------
(* Operations of the block bridge *)

\* ConcreteBlock::new(closure) for a closure of type F capturing (when it
\* captures) a String of length slen.
New(F, slen) ==
    /\ ~halted
    /\ FreeSlots # {} /\ FreeDescs # {}
    /\ F.captures => FreeBufs # {}
    /\ LET b == Min(FreeSlots)
           d == Min(FreeDescs)
           e == IF F.captures THEN Min(FreeBufs) ELSE 0
           closure == MakeClosure(F, e, slen)
       IN  /\ bufs' = AllocBuf(F, e)
           /\ descs' = BoxNew(d, BlockDescriptorNew(F))
           /\ stack' = [stack EXCEPT ![b] =
                  [st |-> "live", F |-> F, from |-> 0, closure |-> closure,
                   blk |-> into_concrete_block(F, closure, d)]]
    /\ UNCHANGED <<heap, ids, foreign, copies, lastCall, halted, vm>>

\* <ConcreteBlock as Clone>::clone(&stack[b]): String::clone allocates a
\* buffer of the same length.
Clone(b) ==
    /\ ~halted
    /\ stack[b].st = "live"
    /\ FreeSlots # {} /\ FreeDescs # {}
    /\ stack[b].F.captures => FreeBufs # {}
    /\ LET F == stack[b].F
           b2 == Min(FreeSlots)
           d == Min(FreeDescs)
           e == IF F.captures THEN Min(FreeBufs) ELSE 0
           closure == IF F.captures
                      THEN MakeClosure(F, e, stack[b].blk.closure[3])
                      ELSE <<>>
       IN  /\ bufs' = AllocBuf(F, e)
           /\ descs' = BoxNew(d, BlockDescriptorNew(F))
           /\ stack' = [stack EXCEPT ![b2] =
                  [st |-> "live", F |-> F, from |-> b, closure |-> closure,
                   blk |-> clone(stack[b].blk, closure, d)]]
    /\ UNCHANGED <<heap, ids, foreign, copies, lastCall, halted, vm>>

\* block.call(args) on a stack-resident block, through DerefMut; the
\* trampoline gets the header's address, which is the block's.
CallStack(b, args) ==
    /\ ~halted
    /\ stack[b].st = "live"
    /\ deref(stack[b].blk).invoke.f # "none"
    /\ lastCall' = [region |-> "stack", id |-> b, live |-> TRUE,
                    args |-> args, value |-> call(stack[b].blk, args)]
    /\ UNCHANGED <<stack, heap, descs, bufs, ids, foreign, copies, halted, vm>>

\* The owner of a stack-resident block lets it go out of scope.
DropStack(b) ==
    /\ ~halted
    /\ stack[b].st = "live"
    /\ \E out \in Outcomes(stack[b].F, stack[b].blk) :
        IF out = "abort"
        THEN /\ halted' = TRUE
             /\ UNCHANGED <<stack, descs, bufs>>
        ELSE LET m == DropConcreteBlock(stack[b].F, stack[b].blk, Mem)
             IN  /\ descs' = m.descs
                 /\ bufs' = m.bufs
                 /\ stack' = [stack EXCEPT ![b].st = "dropped"]
                 /\ halted' = halted
    /\ UNCHANGED <<heap, ids, foreign, copies, lastCall, vm>>

\* ConcreteBlock::copy(self): send `copy` to the header, forget self, wrap
\* the retained pointer in an Id.
Copy(b) ==
    /\ ~halted
    /\ stack[b].st = "live"
    /\ FreeHeap # {}
    /\ \E g \in GarbageWords :
        LET h == Min(FreeHeap)
            c == Block_copy(stack[b].F, stack[b].blk, g, Mem)
            m == forget(stack[b].F, stack[b].blk, c.mem)
        IN  /\ heap' = [heap EXCEPT ![h] =
                   [st |-> "live", F |-> stack[b].F,
                    blk |-> c.blk, rc |-> 1, origin |-> b,
                    disposed |-> 0, frees |-> 0]]
            /\ descs' = m.descs
            /\ bufs' = m.bufs
            /\ ids' = [ids EXCEPT ![h] = @ + 1]
    /\ stack' = [stack EXCEPT ![b].st = "forgotten"]
    /\ copies' = [copies EXCEPT ![b] = @ + 1]
    /\ UNCHANGED <<foreign, lastCall, halted, vm>>

\* id.call(args) on an Id<Block<A, R>>.
CallHeap(h, args) ==
    /\ ~halted
    /\ ids[h] > 0
    /\ heap[h].blk.base.invoke.f # "none"
    /\ lastCall' = [region |-> "heap", id |-> h, live |-> heap[h].st = "live",
                    args |-> args, value |-> call(heap[h].blk, args)]
    /\ UNCHANGED <<stack, heap, descs, bufs, ids, foreign, copies, halted, vm>>

\* Id::clone: retain.
IdClone(h) ==
    /\ ~halted
    /\ ids[h] > 0
    /\ heap[h].rc < MaxRefs
    /\ heap' = [heap EXCEPT ![h].rc = @ + 1]
    /\ ids' = [ids EXCEPT ![h] = @ + 1]
    /\ UNCHANGED <<stack, descs, bufs, foreign, copies, lastCall, halted, vm>>

\* One reference to heap block h is released.
Release(h) ==
    \E out \in (IF heap[h].rc = 1 THEN Outcomes(heap[h].F, heap[h].blk) ELSE {"run"}) :
        IF out = "abort"
        THEN /\ halted' = TRUE
             /\ UNCHANGED <<heap, descs, bufs>>
        ELSE LET m == IF heap[h].rc = 1 THEN DisposeEffect(h, Mem) ELSE Mem
                 last == heap[h].rc = 1
             IN  /\ heap' = [heap EXCEPT
                        ![h].rc = @ - 1,
                        ![h].st = IF last THEN "freed" ELSE @,
                        ![h].disposed = IF last /\ DisposeRuns(h) THEN @ + 1 ELSE @,
                        ![h].frees = IF last THEN m.hfrees[h] + 1 ELSE @]
                 /\ descs' = m.descs
                 /\ bufs' = m.bufs
                 /\ halted' = halted

\* An Id<Block<A, R>> is dropped: release.
IdDrop(h) ==
    /\ ~halted
    /\ ids[h] > 0
    /\ heap[h].rc > 0
    /\ Release(h)
    /\ ids' = [ids EXCEPT ![h] = @ - 1]
    /\ UNCHANGED <<stack, foreign, copies, lastCall, vm>>

-----------------------------------------------------------------------------
(* Foreign code holding the header of a stack-resident block *)

\* The header of stack[b], borrowed through DerefMut, is passed to foreign
\* code as a raw pointer.
HandToForeign(b) ==
    /\ ~halted
    /\ stack[b].st = "live"
    /\ b \notin foreign.ptrs
    /\ foreign' = [foreign EXCEPT !.ptrs = @ \cup {b}]
    /\ UNCHANGED <<stack, heap, descs, bufs, ids, copies, lastCall, halted, vm>>

\* Foreign code copies the block it was handed.
ForeignCopy(b) ==
    /\ ~halted
    /\ b \in foreign.ptrs
    /\ stack[b].st = "live"
    /\ FreeHeap # {}
    /\ \E g \in GarbageWords :
        LET h == Min(FreeHeap)
            c == Block_copy(stack[b].F, stack[b].blk, g, Mem)
        IN  /\ heap' = [heap EXCEPT ![h] =
                   [st |-> "live", F |-> stack[b].F,
                    blk |-> c.blk, rc |-> 1, origin |-> b,
                    disposed |-> 0, frees |-> 0]]
            /\ descs' = c.mem.descs
            /\ bufs' = c.mem.bufs
            /\ foreign' = [foreign EXCEPT !.refs[h] = @ + 1]
    /\ copies' = [copies EXCEPT ![b] = @ + 1]
    /\ UNCHANGED <<stack, ids, lastCall, halted, vm>>

\* Foreign code releases a block it owns.
ForeignRelease(h) ==
    /\ ~halted
    /\ foreign.refs[h] > 0
    /\ heap[h].rc > 0
    /\ Release(h)
    /\ foreign' = [foreign EXCEPT !.refs[h] = @ - 1]
    /\ UNCHANGED <<stack, ids, copies, lastCall, vm>>

-----------------------------------------------------------------------------
(* Message signature verification *)

MaxArgs == 2        \* message arguments after self and _cmd

\* The argument and return types tried, all with an Encode impl in
\* encode.rs, and the type codes a method's signature may hold.
RustTypes == {"Sel", "&Object", "&mut Object", "&Class"}
TypeCodes == {"@", "#", ":", "i"}

\* <T as Encode>::encode()
encode(t) ==
    CASE t = "Sel" -> "Primitive::Sel"
      [] t \in {"&Object", "&mut Object"} -> "Primitive::Object"
      [] t \in {"&Class", "&mut Class"} -> "Primitive::Class"

\* The type code an encoding is written as.
to_string(enc) ==
    CASE enc = "Primitive::Object" -> "@"
      [] enc = "Primitive::Class" -> "#"
      [] enc = "Primitive::Sel" -> ":"

\* A type code read from the runtime compared with an encoding: they are
\* equal when the encoding is written as that code.
EncodingEq(code, enc) == code = to_string(enc)

\* EncodeArguments for a tuple of types: encodings() and len().
encodings(A) == [i \in 1..Len(A) |-> encode(A[i])]
len(A) == Len(A)

\* Tuples of at most n elements of S.
SeqUpTo(S, n) == UNION {[1..k -> S] : k \in 0..n}

\* A method as the runtime describes it: its name, the code of its return
\* type and the codes of its arguments, self ("@") and _cmd (":") first.
Methods ==
    {[name |-> "sel", ret |-> r, args |-> <<"@", ":">> \o t] :
        r \in TypeCodes, t \in SeqUpTo(TypeCodes, MaxArgs)}
NoMethod == [name |-> "none", ret |-> "", args |-> <<>>]

\* Method::arguments_count, Method::argument_type(index), Method::return_type
arguments_count(method) == Len(method.args)
argument_type(method, index) ==
    IF index < Len(method.args)
    THEN [some |-> TRUE, v |-> method.args[index + 1]]
    ELSE [some |-> FALSE, v |-> ""]
return_type(method) == method.ret

\* Ok(()) and Err(MessageError(..)): the error keeps what its message is
\* formatted from.
Ok == [ok |-> TRUE, kind |-> "ok", index |-> 0, expected |-> "", given |-> ""]
Err(kind, index, expected, given) ==
    [ok |-> FALSE, kind |-> kind, index |-> index, expected |-> expected, given |-> given]

\* (mutant) a comparator that starts at self.
MethodEncodingsComparatorNew_self == [index |-> 0, result |-> Ok]

\* MethodEncodingsComparator::new
MethodEncodingsComparatorNew == [index |-> 2, result |-> Ok]

\* (mutant) a callback that records a mismatch but never asks the iteration
\* to stop.
ComparatorCall_nostop(self, method, encoding) ==
    LET index == self.index
        expected == argument_type(method, index)
    IN  [self |-> [index |-> index + 1,
                   result |-> IF expected.some /\ EncodingEq(expected.v, encoding)
                              THEN self.result
                              ELSE Err("argument", index, expected.v, to_string(encoding))],
         stop |-> FALSE]

\* <MethodEncodingsComparator as EncodingsIterateCallback>::call: the
\* comparator it leaves and whether the iteration is to stop.
ComparatorCall(self, method, encoding) ==
    LET index == self.index
        expected == argument_type(method, index)
    IN  IF ~(expected.some /\ EncodingEq(expected.v, encoding))
        THEN [self |-> [index |-> index + 1,
                        result |-> IF expected.some
                                   THEN Err("argument", index, expected.v, to_string(encoding))
                                   ELSE Err("no argument", index, "", to_string(encoding))],
              stop |-> TRUE]
        ELSE [self |-> [index |-> index + 1, result |-> self.result],
              stop |-> FALSE]

blockVars == <<stack, heap, descs, bufs, ids, foreign, copies, lastCall, halted>>

VmIdle ==
    [pc |-> "idle", found |-> FALSE, method |-> NoMethod, A |-> <<>>, R |-> "Sel",
     comparator |-> MethodEncodingsComparatorNew, pos |-> 0, result |-> Ok]

\* verify_message_signature::<A, R>(cls, sel) is entered, for any argument
\* and return types and any class: method is what cls.instance_method(sel)
\* will answer, NoMethod standing for None.
VerifyBegin ==
    /\ vm.pc = "idle"
    /\ \E A \in SeqUpTo(RustTypes, MaxArgs), R \in RustTypes :
        \E method \in Methods \cup {NoMethod} :
            vm' = [VmIdle EXCEPT !.pc = "lookup", !.found = method # NoMethod,
                                !.method = method, !.A = A, !.R = R]
    /\ UNCHANGED blockVars

\* let method = match cls.instance_method(sel)
VerifyLookup ==
    /\ vm.pc = "lookup"
    /\ vm' = IF vm.found
             THEN [vm EXCEPT !.pc = "ret"]
             ELSE [vm EXCEPT !.pc = "done", !.result = Err("not found", 0, "", "")]
    /\ UNCHANGED blockVars

\* if expected_ret != ret
VerifyReturnType ==
    /\ vm.pc = "ret"
    /\ LET ret == encode(vm.R)
           expected_ret == return_type(vm.method)
       IN  vm' = IF ~EncodingEq(expected_ret, ret)
                 THEN [vm EXCEPT !.pc = "done",
                          !.result = Err("return type", 0, expected_ret, to_string(ret))]
                 ELSE [vm EXCEPT !.pc = "count"]
    /\ UNCHANGED blockVars

\* if count != expected_count; else the comparator is made
VerifyCount ==
    /\ vm.pc = "count"
    /\ LET count == 2 + len(vm.A)
           expected_count == arguments_count(vm.method)
       IN  vm' = IF count # expected_count
                 THEN [vm EXCEPT !.pc = "done",
                          !.result = Err("count", 0, expected_count, count)]
                 ELSE [vm EXCEPT !.pc = "each",
                          !.comparator = MethodEncodingsComparatorNew, !.pos = 0]
    /\ UNCHANGED blockVars

\* args.each(&mut comparator): the next encoding is handed to the
\* comparator, until it asks to stop or none is left.
VerifyEach ==
    /\ vm.pc = "each"
    /\ vm' = IF vm.pos < Len(encodings(vm.A))
             THEN LET r == ComparatorCall(vm.comparator, vm.method,
                                          encodings(vm.A)[vm.pos + 1])
                  IN  [vm EXCEPT !.comparator = r.self,
                                 !.pos = @ + 1,
                                 !.pc = IF r.stop THEN "result" ELSE "each"]
             ELSE [vm EXCEPT !.pc = "result"]
    /\ UNCHANGED blockVars

\* comparator.result is returned
VerifyReturn ==
    /\ vm.pc = "result"
    /\ vm' = [vm EXCEPT !.pc = "done", !.result = vm.comparator.result]
    /\ UNCHANGED blockVars

-----------------------------------------------------------------------------
(* Specifications *)

\* The closure types the lifecycle runs wrap.
FTypes == {FType(0, 13, FALSE), FType(1, 5, FALSE), FType(0, 0, TRUE)}

Init ==
    /\ stack = [b \in Slots |-> NoSlot]
    /\ heap = [h \in HeapIds |-> NoHeap]
    /\ descs = [d \in DescIds |-> [alloc |-> FALSE, frees |-> 0, desc |-> NoDescriptor]]
    /\ bufs = [e \in BufIds |-> [alloc |-> FALSE, frees |-> 0]]
    /\ ids = [h \in HeapIds |-> 0]
    /\ foreign = [ptrs |-> {}, refs |-> [h \in HeapIds |-> 0]]
    /\ copies = [b \in Slots |-> 0]
    /\ lastCall = NoCall
    /\ halted = FALSE
    /\ vm = VmIdle

\* What safe Rust can do with the bridge.
Next ==
    \/ \E F \in FTypes, slen \in StrLens : New(F, slen)
    \/ \E b \in Slots : Clone(b)
    \/ \E b \in Slots : \E args \in ArgsOf(stack[b].F) : CallStack(b, args)
    \/ \E b \in Slots : DropStack(b)
    \/ \E b \in Slots : Copy(b)
    \/ \E h \in HeapIds : \E args \in ArgsOf(heap[h].F) : CallHeap(h, args)
    \/ \E h \in HeapIds : IdClone(h)
    \/ \E h \in HeapIds : IdDrop(h)

Spec == Init /\ [][Next]_vars

\* The same, with foreign code that was handed a stack block's header.
NextForeign ==
    \/ Next
    \/ \E b \in Slots : HandToForeign(b)
    \/ \E b \in Slots : ForeignCopy(b)
    \/ \E h \in HeapIds : ForeignRelease(h)

SpecForeign == Init /\ [][NextForeign]_vars

\* Calls at every supported arity: one block of any of the wide closure
\* types is built, called on the stack, promoted and called on the heap.
WideFTypes == {FType(n, 5, c) : n \in 0..MaxArity, c \in BOOLEAN}

NewFirst(F, slen) == FreeSlots = Slots /\ New(F, slen)

\* The argument tuples tried at the wide arities: all 2s but for at most
\* two positions, which hold 6, so that every position and every pair of
\* positions is told apart.
WideArgs(F) ==
    {[i \in 1..F.arity |-> IF i = p \/ i = q THEN 6 ELSE 2] : p, q \in 0..F.arity}

NextCall ==
    \/ \E F \in WideFTypes, slen \in StrLens : NewFirst(F, slen)
    \/ \E b \in Slots : \E args \in WideArgs(stack[b].F) : CallStack(b, args)
    \/ \E b \in Slots : Copy(b)
    \/ \E h \in HeapIds : \E args \in WideArgs(heap[h].F) : CallHeap(h, args)

SpecCall == Init /\ [][NextCall]_vars

\* One activation of verify_message_signature on any class, selector and
\* argument and return types.
NextVerify ==
    \/ VerifyBegin
    \/ VerifyLookup
    \/ VerifyReturnType
    \/ VerifyCount
    \/ VerifyEach
    \/ VerifyReturn

SpecVerify == Init /\ [][NextVerify]_vars

-----------------------------------------------------------------------------
(* Properties *)

LiveStack == {b \in Slots : stack[b].st = "live"}
LiveHeap == {h \in HeapIds : heap[h].st = "live"}

\* The stack slot whose closure the target of the last call wraps, and the
\* block the call went through.
CallSlot == IF lastCall.region = "heap" THEN heap[lastCall.id].origin ELSE lastCall.id
CallTarget ==
    IF lastCall.region = "heap" THEN heap[lastCall.id].blk ELSE stack[lastCall.id].blk

\* C1: Block::call(args) on a block built by ConcreteBlock::new(closure)
\* returns what closure(args) returns, at every arity 0..12: the block
\* called carries the trampoline of the tuple's arity, and the value
\* recorded by the last call equals the closure that was moved in, applied
\* directly to the same arguments in the same order.
C1_CallReturnsClosureResult ==
    lastCall.region # "none" =>
        /\ Len(lastCall.args) = stack[CallSlot].F.arity
        /\ CallTarget.base.invoke = Trampoline(Len(lastCall.args), stack[CallSlot].F)
        /\ lastCall.value =
              ClosureCall(stack[CallSlot].F, stack[CallSlot].closure, lastCall.args)

\* A call at arity 12 whose arguments are not all the same.
C1_Witness ==
    /\ lastCall.region = "stack"
    /\ Len(lastCall.args) = MaxArity
    /\ lastCall.args[1] # lastCall.args[MaxArity]
    /\ stack[lastCall.id].F.captures

\* C2: promotion round trip.  While the heap copy made by
\* ConcreteBlock::copy is alive, its captured environment is the one that
\* was moved into the stack block, intact, and for every argument tuple a
\* call through the heap copy returns what a call through the stack block
\* returned before promotion and what the closure itself returns; the last
\* call made through an Id returned that value.
C2_PromotionRoundTrip ==
    /\ \A h \in LiveHeap :
        LET b == heap[h].origin
            F == heap[h].F
        IN  /\ heap[h].blk.closure = stack[b].closure
            /\ F.captures =>
                 /\ bufs[stack[b].closure[1]].alloc
                 /\ bufs[stack[b].closure[1]].frees = 0
            /\ \A args \in ArgsOf(F) :
                 /\ call(heap[h].blk, args) = call(stack[b].blk, args)
                 /\ call(heap[h].blk, args) = ClosureCall(F, stack[b].closure, args)
    /\ lastCall.region = "heap" =>
         lastCall.value =
            ClosureCall(stack[CallSlot].F, stack[CallSlot].closure, lastCall.args)

\* Scenario B and C: `a -> a + 5` promoted and called with 6 gives 11, next
\* to a promoted closure that owns a String.
C2_Witness ==
    /\ lastCall.region = "heap"
    /\ lastCall.args = <<6>>
    /\ lastCall.value = 11
    /\ \E h \in LiveHeap : heap[h].F.captures

\* How often the instance built in slot b was destructed: the frees of its
\* descriptor, which every instance owns, and of the String it captured.
DescFrees(b) == descs[stack[b].blk.descriptor].frees
EnvFrees(b) ==
    IF stack[b].F.captures THEN bufs[stack[b].closure[1]].frees ELSE DescFrees(b)
HeapOf(b) == {h \in HeapIds : heap[h].st # "unused" /\ heap[h].origin = b}

\* C3: the captured environment is destructed exactly once in every
\* lifecycle: not while the instance is live on the stack, once when its
\* stack owner drops it, not at promotion nor while the heap copy is alive,
\* once when the heap copy was released; never twice.
C3_DestructedExactlyOnce ==
    /\ \A d \in DescIds : descs[d].frees <= 1
    /\ \A e \in BufIds : bufs[e].frees <= 1
    /\ \A b \in Slots :
        /\ stack[b].st = "live" => DescFrees(b) = 0 /\ EnvFrees(b) = 0
        /\ stack[b].st = "dropped" => DescFrees(b) = 1 /\ EnvFrees(b) = 1
        /\ stack[b].st = "forgotten" =>
             /\ Cardinality(HeapOf(b)) = 1
             /\ \A h \in HeapOf(b) :
                  /\ heap[h].st = "live" => DescFrees(b) = 0 /\ EnvFrees(b) = 0
                  /\ heap[h].st = "freed" => DescFrees(b) = 1 /\ EnvFrees(b) = 1

\* A closure owning a String was promoted and released, next to one that
\* was dropped on the stack.
C3_Witness ==
    /\ \E h \in HeapIds :
         /\ heap[h].st = "freed"
         /\ heap[h].F.captures
         /\ EnvFrees(heap[h].origin) = 1
    /\ \E b \in Slots : stack[b].st = "dropped" /\ stack[b].F.captures

\* C4: promotion is one-shot, whatever is done with the block, foreign
\* code holding its header included: no stack instance is copied to the
\* heap by the copy primitive more than once.
C4_PromotedAtMostOnce == \A b \in Slots : copies[b] <= 1

\* The ownership regime of the instance built in slot b.
Regime(b) ==
    CASE stack[b].st = "unused" -> "none"
      [] stack[b].st = "live" -> "stack"
      [] stack[b].st = "dropped" -> "dropped"
      [] OTHER ->
           IF \E h \in HeapOf(b) : heap[h].st = "live" THEN "heap" ELSE "released"

Forward ==
    {<<"none", "stack">>, <<"stack", "heap">>, <<"heap", "released">>,
     <<"stack", "dropped">>}

C5_State ==
    /\ \A h \in HeapIds :
        /\ heap[h].st = "live" <=> heap[h].rc > 0
        /\ heap[h].st = "live" =>
             /\ DescFrees(heap[h].origin) = 0
             /\ EnvFrees(heap[h].origin) = 0
        /\ ids[h] > 0 => heap[h].st = "live"
        /\ ids[h] <= heap[h].rc
    /\ lastCall.live

C5_Step ==
    \A b \in Slots : Regime(b)' = Regime(b) \/ <<Regime(b), Regime(b)'>> \in Forward

\* C5: the ownership state only moves forward, stack-resident -> heap-
\* resident -> released (or stack-resident -> dropped); the environment of
\* a heap block is destructed only when its reference count has reached
\* zero; every Id refers to a block that is alive, so no call is made on a
\* released block.
C5_ForwardOnly == []C5_State /\ [][C5_Step]_vars

\* A promoted block held by two Ids, and one that was released.
C5_Witness ==
    /\ \E h \in HeapIds : heap[h].rc = 2 /\ ids[h] = 2
    /\ \E b \in Slots : Regime(b) = "released"
    /\ lastCall.region = "heap"

\* The live instances: stack blocks that may still be called or dropped,
\* heap blocks not yet released.
Instances == {<<"stack", b>> : b \in LiveStack} \cup {<<"heap", h>> : h \in LiveHeap}
BlkOf(i) == IF i[1] = "stack" THEN stack[i[2]].blk ELSE heap[i[2]].blk
TypeOf(i) == IF i[1] = "stack" THEN stack[i[2]].F ELSE heap[i[2]].F

\* C6: every live instance references one allocated, unfreed Descriptor,
\* and no two live instances reference the same one.
C6_OneDescriptorPerInstance ==
    /\ \A i \in Instances :
        /\ BlkOf(i).descriptor \in DescIds
        /\ descs[BlkOf(i).descriptor].alloc
        /\ descs[BlkOf(i).descriptor].frees = 0
    /\ \A i, j \in Instances : i # j => BlkOf(i).descriptor # BlkOf(j).descriptor

\* A clone alive next to the block it was cloned from, after that one was
\* promoted.
C6_Witness ==
    \E b \in LiveStack :
        /\ stack[b].from # 0
        /\ stack[stack[b].from].st = "forgotten"
        /\ \E h \in LiveHeap : heap[h].origin = stack[b].from

C7_State ==
    \A i \in Instances :
        BlkOf(i).base.invoke = Trampoline(TypeOf(i).arity, TypeOf(i))

C7_Step ==
    /\ \A b \in Slots :
        stack[b].st # "unused" => stack'[b].blk.base.invoke = stack[b].blk.base.invoke
    /\ \A h \in HeapIds :
        heap[h].st # "unused" => heap'[h].blk.base.invoke = heap[h].blk.base.invoke
    /\ \A h \in HeapIds :
        heap[h].st = "unused" /\ heap'[h].st # "unused" =>
            heap'[h].blk.base.invoke = stack[heap'[h].origin].blk.base.invoke
    /\ \A b \in Slots :
        stack[b].st = "unused" /\ stack'[b].st # "unused" /\ stack'[b].from # 0 =>
            stack'[b].blk.base.invoke = stack[stack'[b].from].blk.base.invoke

\* C7: the invoke word of every instance is the trampoline of the wrapped
\* closure's arity and type; no operation changes the invoke word of an
\* existing instance, and a heap copy and a clone start with the invoke
\* word of the instance they were made from.
C7_InvokeFixed == []C7_State /\ [][C7_Step]_vars

\* A one-argument block's clone and its promoted original.
C7_Witness ==
    \E b \in LiveStack :
        /\ stack[b].F.arity = 1
        /\ stack[b].from # 0
        /\ \E h \in LiveHeap : heap[h].origin = stack[b].from

\* C8: a block made by ConcreteBlock::new or Clone has the stack-block
\* class as its type tag and a zero reserved word, and every live instance
\* (each has a Descriptor attached) has the copy/dispose flag bit set.
C8_HeaderWellFormed ==
    /\ \A b \in Slots :
        stack[b].st # "unused" =>
            /\ stack[b].blk.base.isa = StackBlockClass
            /\ stack[b].blk.base._reserved = 0
    /\ \A i \in Instances :
        /\ BlkOf(i).base._reserved = 0
        /\ HasBit(BlkOf(i).base.flags, 2^25)

\* A clone and a heap copy exist.
C8_Witness ==
    /\ \E b \in LiveStack : stack[b].from # 0
    /\ \E h \in LiveHeap : heap[h].blk.base.isa = MallocBlockClass

\* The bytes an instance occupies: header, descriptor pointer, the words of
\* its closure value.
InstanceBytes(closure) == (PtrSize + IntSize + IntSize + PtrSize) + PtrSize
                          + Len(closure) * PtrSize

\* C9: the size recorded in the Descriptor of every live instance is the
\* byte size of that instance, on the stack and after promotion, and the
\* heap copy holds every field of the instance it was copied from.
C9_DescriptorSizeExact ==
    /\ \A b \in LiveStack :
        /\ stack[b].blk.descriptor \in DescIds
        /\ descs[stack[b].blk.descriptor].desc.block_size
             = InstanceBytes(stack[b].closure)
    /\ \A h \in LiveHeap :
        /\ heap[h].blk.descriptor \in DescIds
        /\ descs[heap[h].blk.descriptor].desc.block_size
             = InstanceBytes(stack[heap[h].origin].closure)
        /\ heap[h].blk = [stack[heap[h].origin].blk EXCEPT !.base.isa = MallocBlockClass]

\* A promoted block that owns a String, and one that captures nothing.
C9_Witness ==
    /\ \E h \in LiveHeap :
         /\ heap[h].F.captures
         /\ descs[heap[h].blk.descriptor].desc.block_size = 56
    /\ \E h \in LiveHeap :
         /\ ~heap[h].F.captures
         /\ descs[heap[h].blk.descriptor].desc.block_size = 32

\* What the signature of the method must be for the message to match it.
SignatureMatches ==
    /\ vm.found
    /\ vm.method.ret = to_string(encode(vm.R))
    /\ 2 + Len(vm.A) = Len(vm.method.args)
    /\ \A i \in 0..(Len(vm.A) - 1) :
        /\ i + 2 < Len(vm.method.args)
        /\ vm.method.args[i + 3] = to_string(encode(vm.A[i + 1]))

\* C10: verify_message_signature returns Ok(()) exactly when the method
\* exists, its return type code is R's, it takes 2 + A::len() arguments and
\* its argument i + 2 has the code of A's i-th type for every i; in every
\* other case it returns an Err.
C10_OkIffSignatureMatches ==
    vm.pc = "done" =>
        /\ vm.result.ok <=> SignatureMatches
        /\ ~vm.result.ok => vm.result.kind \in
              {"not found", "return type", "count", "argument", "no argument"}

\* A two-argument message that verifies, its arguments of different types.
C10_Witness ==
    /\ vm.pc = "done"
    /\ vm.result.ok
    /\ Len(vm.A) = 2
    /\ vm.A[1] # vm.A[2]

\* The fields a heap-resident block owns, as found in its own storage.
HeapDescFrees(h) == descs[heap[h].blk.descriptor].frees
HeapEnvFrees(h) ==
    IF heap[h].F.captures THEN bufs[heap[h].blk.closure[1]].frees ELSE HeapDescFrees(h)

\* C11: on a heap-resident block the dispose helper destructs the captured
\* environment and the owned descriptor in place and leaves the enclosing
\* allocation alone: while the block is alive nothing of it is destructed
\* or freed; once it is released the helper has run once, environment and
\* descriptor are destructed once, and the allocation was freed once, by
\* the runtime, never without the helper having run.
C11_DisposeLeavesAllocation ==
    \A h \in HeapIds :
        /\ heap[h].frees <= 1
        /\ heap[h].frees > 0 => heap[h].disposed >= 1
        /\ heap[h].st = "unused" => heap[h].frees = 0 /\ heap[h].disposed = 0
        /\ heap[h].st = "live" =>
             /\ heap[h].frees = 0
             /\ heap[h].disposed = 0
             /\ HeapDescFrees(h) = 0
             /\ HeapEnvFrees(h) = 0
        /\ heap[h].st = "freed" =>
             /\ heap[h].frees = 1
             /\ heap[h].disposed = 1
             /\ HeapDescFrees(h) = 1
             /\ HeapEnvFrees(h) = 1

\* A promoted closure owning a String was released: the helper ran, the
\* String's buffer and the descriptor are gone, the allocation was freed
\* once.
C11_Witness ==
    \E h \in HeapIds :
        /\ heap[h].st = "freed"
        /\ heap[h].F.captures
        /\ heap[h].disposed = 1
        /\ heap[h].frees = 1
        /\ bufs[heap[h].blk.closure[1]].frees = 1
        /\ HeapDescFrees(h) = 1

\* Whether the method's argument i + 2 differs from the code of A's i-th type.
Mismatch(i) ==
    \/ i + 2 >= Len(vm.method.args)
    \/ vm.method.args[i + 3] # to_string(encode(vm.A[i + 1]))

Mismatches == {i \in 0..(Len(vm.A) - 1) : Mismatch(i)}

\* The first check, in the order lookup, return type, count, arguments,
\* that the message fails; "ok" if it fails none.
FirstFailure ==
    IF ~vm.found THEN "not found"
    ELSE IF vm.method.ret # to_string(encode(vm.R)) THEN "return type"
    ELSE IF 2 + Len(vm.A) # Len(vm.method.args) THEN "count"
    ELSE IF Mismatches # {} THEN "argument"
    ELSE "ok"

C12_State ==
    /\ vm.pc \in {"each", "result", "done"} => vm.comparator.index = 2 + vm.pos
    /\ vm.pc = "each" =>
         /\ vm.comparator.result.ok
         /\ \A i \in 0..(vm.pos - 1) : ~Mismatch(i)
    /\ vm.pc = "done" =>
         /\ vm.result.kind = FirstFailure
         /\ vm.result.kind \in {"not found", "return type", "count"} => vm.pos = 0
         /\ vm.result.kind = "ok" => vm.pos = Len(vm.A)
         /\ vm.result.kind = "argument" =>
              /\ vm.result.index - 2 \in Mismatches
              /\ \A i \in Mismatches : vm.result.index - 2 <= i
              /\ vm.pos = vm.result.index - 1
              /\ vm.result.expected = vm.method.args[vm.result.index + 1]
              /\ vm.result.given = to_string(encode(vm.A[vm.result.index - 1]))

PcOrder ==
    {<<"idle", "lookup">>, <<"lookup", "ret">>, <<"lookup", "done">>,
     <<"ret", "count">>, <<"ret", "done">>, <<"count", "each">>,
     <<"count", "done">>, <<"each", "each">>, <<"each", "result">>,
     <<"result", "done">>}

C12_Step ==
    /\ <<vm.pc, vm'.pc>> \in PcOrder
    /\ vm.pc # "idle" /\ vm'.comparator.index # vm.comparator.index =>
         /\ vm.pc = "each"
         /\ vm'.comparator.index = vm.comparator.index + 1
         /\ vm'.pos = vm.pos + 1
    /\ vm.pc = "count" /\ vm'.pc = "each" => vm'.comparator.index = 2
    /\ vm.pc # "idle" /\ ~vm.comparator.result.ok =>
         /\ vm'.comparator = vm.comparator
         /\ vm'.pos = vm.pos
    /\ vm.pc # "idle" /\ ~vm.result.ok => vm'.result = vm.result

\* C12: verify_message_signature checks lookup, return type, argument
\* count and then the arguments, in this order, and returns the error of
\* the first check that fails; the comparator starts at method argument 2,
\* moves on by one per encoding handed to it, stops at the first mismatch,
\* so that the error names the smallest mismatching index, no later
\* argument is compared, and a recorded error is never replaced.
C12_FirstFailureReported == []C12_State /\ [][C12_Step]_vars

\* Both arguments of a two-argument message mismatch: the error names
\* index 2 and the second argument was not compared.
C12_Witness ==
    /\ vm.pc = "done"
    /\ Len(vm.A) = 2
    /\ Mismatches = {0, 1}
    /\ vm.result.kind = "argument"
    /\ vm.result.index = 2
    /\ vm.pos = 1

====
